---- MODULE Spec2Model ----
(***************************************************************************)
(* Model of the structural diff engine (src/ces/deepEq.js) and of the      *)
(* watch toggle of the interactive menu (src/ces/ces.js).                  *)
(*                                                                         *)
(* JavaScript strings are sequences of one-character strings, so that      *)
(* joining path segments and lower-casing are computed, not assumed.       *)
(* Composite values live in a heap and are referred to by identity.        *)
(***************************************************************************)
EXTENDS Integers, Sequences, FiniteSets, TLC

(***************************************************************************)
(* Bounds                                                                  *)
(***************************************************************************)
MaxArrLen == 2
MaxDepthOpt == 2

(***************************************************************************)
(* JavaScript values                                                       *)
(***************************************************************************)
Null == [t |-> "null"]
Undefined == [t |-> "undefined"]
Num(n) == [t |-> "number", n |-> n]
Str(s) == [t |-> "string", s |-> s]
Ref(i) == [t |-> "object", id |-> i]

\* typeof v
TypeOf(v) == IF v.t = "null" THEN "object" ELSE v.t

\* ToBoolean(v), as used by `a && b` and `!a`
Truthy(v) ==
  CASE v.t = "null" -> FALSE
    [] v.t = "undefined" -> FALSE
    [] v.t = "number" -> v.n # 0
    [] v.t = "string" -> v.s # <<>>
    [] OTHER -> TRUE

\* v == null
IsNullish(v) == v.t \in {"null", "undefined"}

\* a === b : primitives by value, composites by identity
StrictEq(a, b) == a = b

Range(s) == {s[i] : i \in 1..Len(s)}

Max(x, y) == IF x >= y THEN x ELSE y

DigitChars == <<"0", "1", "2", "3", "4", "5", "6", "7", "8", "9">>

\* String(i) for a non-negative integer
RECURSIVE NumToString(_)
NumToString(i) ==
  IF i < 10 THEN <<DigitChars[i + 1]>>
  ELSE NumToString(i \div 10) \o <<DigitChars[(i % 10) + 1]>>

\* String.prototype.toLowerCase on the alphabet of the model
LowerChar(c) ==
  CASE c = "F" -> "f"
    [] c = "P" -> "p"
    [] OTHER -> c

ToLowerCase(s) == [i \in 1..Len(s) |-> LowerChar(s[i])]

(***************************************************************************)
(* Heap objects: a mapping is its own-key order with the values, a         *)
(* sequence is its elements.                                               *)
(***************************************************************************)
KV(k, v) == [k |-> k, v |-> v]
Mapping(entries) == [kind |-> "map", entries |-> entries]
Sequence(elems) == [kind |-> "arr", elems |-> elems]

\* Array.isArray(v)
IsArray(h, v) == v.t = "object" /\ h[v.id].kind = "arr"

\* Object.keys(o)
OwnKeys(o) ==
  IF o.kind = "arr" THEN [i \in 1..Len(o.elems) |-> NumToString(i - 1)]
  ELSE [i \in 1..Len(o.entries) |-> o.entries[i].k]

\* key in o
HasKey(o, key) == key \in Range(OwnKeys(o))

\* o[key] for a string key
Get(o, key) ==
  IF ~HasKey(o, key) THEN Undefined
  ELSE IF o.kind = "arr"
    THEN o.elems[CHOOSE i \in 1..Len(o.elems) : NumToString(i - 1) = key]
    ELSE o.entries[CHOOSE i \in 1..Len(o.entries) : o.entries[i].k = key].v

\* o[i] for an integer index into a sequence
ElemAt(o, i) == IF i < Len(o.elems) THEN o.elems[i + 1] ELSE Undefined

\* a.length
Length(o) == Len(o.elems)

\* the values directly held by an object
Children(o) ==
  IF o.kind = "arr" THEN Range(o.elems)
  ELSE {o.entries[i].v : i \in 1..Len(o.entries)}

RefsOf(h, id) == {v.id : v \in {c \in Children(h[id]) : c.t = "object"}}

RECURSIVE ReachFrom(_, _, _)
ReachFrom(h, frontier, seen) ==
  LET next == (UNION {RefsOf(h, i) : i \in frontier}) \ seen
  IN IF next = {} THEN seen ELSE ReachFrom(h, next, seen \cup next)

\* ids reachable from id in one or more steps
ReachPlus(h, id) == ReachFrom(h, RefsOf(h, id), RefsOf(h, id))

\* JSON.stringify(v) throws a TypeError on a circular structure
StringifyThrows(h, v) ==
  /\ v.t = "object"
  /\ \E n \in ReachPlus(h, v.id) \cup {v.id} : n \in ReachPlus(h, n)

(***************************************************************************)
(* DiffOptions                                                             *)
(***************************************************************************)
\* options.customEqual, one of a few pure predicates
CustomEqual(name, a, b) ==
  CASE name = "sameType" -> TypeOf(a) = TypeOf(b)
    [] OTHER -> FALSE

DefaultOptions ==
  [customEqual |-> "unset", ignoreCase |-> FALSE, maxDepth |-> Undefined,
   ignoreKeys |-> {}, includeNulls |-> TRUE]

\* isEqual(a, b, options)
IsEqual(a, b, o) ==
  IF StrictEq(a, b) THEN TRUE
  ELSE IF o.customEqual # "unset" THEN CustomEqual(o.customEqual, a, b)
  ELSE IF o.ignoreCase /\ TypeOf(a) = "string" /\ TypeOf(b) = "string"
    THEN ToLowerCase(a.s) = ToLowerCase(b.s)
  ELSE FALSE

\* options.maxDepth && depth > options.maxDepth
DepthExceeded(o, depth) == Truthy(o.maxDepth) /\ depth > o.maxDepth.n

\* options.includeNulls === false && (a == null || b == null)
NullSuppressed(o, a, b) == o.includeNulls = FALSE /\ (IsNullish(a) \/ IsNullish(b))

\* options.ignoreKeys && options.ignoreKeys.includes(key)
KeyIgnored(o, key) == key \in o.ignoreKeys

(***************************************************************************)
(* PathFormatter                                                           *)
(***************************************************************************)
\* the index without its brackets
IndexSegmentBare(i) == NumToString(i)

\* `[${i}]`
IndexSegment(i) == <<"[">> \o NumToString(i) \o <<"]">>

\* path.join(".")
RECURSIVE JoinPath(_)
JoinPath(path) ==
  IF path = <<>> THEN <<>>
  ELSE IF Len(path) = 1 THEN path[1]
  ELSE JoinPath(SubSeq(path, 1, Len(path) - 1)) \o <<".">> \o path[Len(path)]

(***************************************************************************)
(* Change records.  loc is a history field: the steps (key or index)      *)
(* taken from the roots to the location of the record.  Of the summary     *)
(* and description texts only their JSON.stringify calls are kept, as      *)
(* YieldThrows: they can abort the call.                                   *)
(***************************************************************************)
KeyStep(k) == [kind |-> "key", key |-> k]
IndexStep(i) == [kind |-> "index", index |-> i]

ChangedRecord(path, a, b, loc) ==
  [path |-> JoinPath(path), type |-> "changed", before |-> a, after |-> b, loc |-> loc]
AddedRecord(path, v, loc) ==
  [path |-> JoinPath(path), type |-> "added", after |-> v, loc |-> loc]
\* the removed literal written like the changed one, with after: b[key]
RemovedRecordWithAfter(path, v, loc) ==
  [path |-> JoinPath(path), type |-> "removed", before |-> v, after |-> Undefined,
   loc |-> loc]
RemovedRecord(path, v, loc) ==
  [path |-> JoinPath(path), type |-> "removed", before |-> v, loc |-> loc]

\* the union taken from b first
UnionKeysBFirst(ka, kb) == kb \o SelectSeq(ka, LAMBDA k : k \notin Range(kb))

\* the key union of the mapping step: keys of a, then keys unique to b
UnionKeys(ka, kb) == ka \o SelectSeq(kb, LAMBDA k : k \notin Range(ka))

\* visited.has(a) || visited.has(b)
CycleSkip(vis, a, b) == a.id \in vis \/ b.id \in vis

\* only a is recorded
CycleAddFirstOnly(vis, a, b) == vis \cup {a.id}

\* visited.add(a); visited.add(b)
CycleAdd(vis, a, b) == vis \cup {a.id, b.id}

(***************************************************************************)
(* State                                                                   *)
(***************************************************************************)
VARIABLES
  heap,      \* the composite values, by identity
  rootA,     \* the value passed as a
  rootB,     \* the value passed as b
  options,   \* the DiffOptions of both calls
  cur,       \* the running call: "idle", "ab" = compare(a,b), "ba" = compare(b,a)
  stack,     \* the suspended deepDiff generators, innermost last
  visited,   \* the WeakSet of the running call
  out,       \* the records yielded so far by the running call
  results,   \* what compare(a,b) and compare(b,a) returned or threw
  entered,   \* history: how often each composite was entered by the running call
  gFn,       \* the Aggregation API call in progress: "none", "groupByType", "getSummary"
  gPhase,    \* "idle", "reduce", "done", "threw"
  gDiffs,    \* the list passed to groupByType / getSummary
  gIdx,      \* position of diffs.reduce
  gGroups,   \* the accumulator of diffs.reduce
  gSummary,  \* what getSummary returned
  mPc,       \* the menu: "select", "confirm", "exited"
  watch,     \* state.watch
  intervals, \* the timers that are active
  timerSeq,  \* the next timer handle
  parsed,    \* state.parsed, as the version of the grades it holds
  gradesFile, \* the content of grades.json, 0 when the file does not exist
  pending,   \* the checkGrades calls waiting for their fetch
  posted,    \* the version last posted to the webhook, 0 when none
  mLog       \* the last message the menu printed

diffVars == <<heap, rootA, rootB, options, cur, stack, visited, out, results, entered>>
groupVars == <<gFn, gPhase, gDiffs, gIdx, gGroups, gSummary>>
menuVars == <<mPc, watch, intervals, timerSeq, parsed, gradesFile, pending, posted, mLog>>
vars == <<diffVars, groupVars, menuVars>>

NoResult == [status |-> "none"]
Returned(list) == [status |-> "returned", list |-> list]
Threw(err) == [status |-> "threw", error |-> err]

Frame(a, b, path, loc, depth) ==
  [pc |-> "start", a |-> a, b |-> b, path |-> path, loc |-> loc,
   depth |-> depth, i |-> 0, keys |-> <<>>]

Top == stack[Len(stack)]
Popped == SubSeq(stack, 1, Len(stack) - 1)
ReplaceTop(f) == [stack EXCEPT ![Len(stack)] = f]

Running == cur # "idle" /\ stack # <<>>

\* evaluating the record literal stringifies the values, which can throw
YieldThrows(vals) == \E v \in vals : StringifyThrows(heap, v)

\* the exception leaves every generator and compare
Abort ==
  /\ stack' = <<>>
  /\ out' = <<>>
  /\ results' = [results EXCEPT ![cur] = Threw("TypeError")]
  /\ cur' = "idle"

\* yield rec, then continue with the stack s
Yield(rec, vals, s) ==
  IF YieldThrows(vals) THEN Abort
  ELSE /\ out' = Append(out, rec)
       /\ stack' = s
       /\ UNCHANGED <<results, cur>>

Silent(s) == stack' = s /\ UNCHANGED <<out, results, cur>>

BothComposite(a, b) ==
  TypeOf(a) = "object" /\ Truthy(a) /\ TypeOf(b) = "object" /\ Truthy(b)

(***************************************************************************)
(* compare(a, b, options): validation and start of the traversal           *)
(***************************************************************************)
CompareCall(dir, a, b) ==
  /\ cur = "idle"
  /\ results[dir] = NoResult
  /\ IF ~Truthy(a) \/ ~Truthy(b)
       THEN /\ results' = [results EXCEPT ![dir] = Threw("Both objects must be provided")]
            /\ UNCHANGED <<cur, stack>>
     ELSE IF TypeOf(a) # "object" \/ TypeOf(b) # "object"
       THEN /\ results' = [results EXCEPT ![dir] = Threw("Both parameters must be objects")]
            /\ UNCHANGED <<cur, stack>>
     ELSE /\ cur' = dir
          /\ stack' = <<Frame(a, b, <<>>, <<>>, 0)>>
          /\ UNCHANGED results
  /\ visited' = {}
  /\ out' = <<>>
  /\ entered' = [id \in DOMAIN heap |-> 0]
  /\ UNCHANGED <<heap, rootA, rootB, options, groupVars, menuVars>>

CompareAB == CompareCall("ab", rootA, rootB)

CompareBA == results["ab"] # NoResult /\ CompareCall("ba", rootB, rootA)

\* [...deepDiff(...)] is exhausted: compare returns the list
CompareReturn ==
  /\ cur # "idle"
  /\ stack = <<>>
  /\ results' = [results EXCEPT ![cur] = Returned(out)]
  /\ cur' = "idle"
  /\ UNCHANGED <<heap, rootA, rootB, options, stack, visited, out, entered>>
  /\ UNCHANGED <<groupVars, menuVars>>

(***************************************************************************)
(* deepDiff: entry of one invocation, up to its first loop or its return   *)
(***************************************************************************)
DeepDiffEnter ==
  /\ Running
  /\ Top.pc = "start"
  /\ LET f == Top
         a == f.a
         b == f.b
         guarded == BothComposite(a, b)
     IN
     IF DepthExceeded(options, f.depth) THEN
       Silent(Popped) /\ UNCHANGED <<visited, entered>>
     ELSE IF IsEqual(a, b, options) THEN
       Silent(Popped) /\ UNCHANGED <<visited, entered>>
     ELSE IF guarded /\ CycleSkip(visited, a, b) THEN
       Silent(Popped) /\ UNCHANGED <<visited, entered>>
     ELSE
       /\ visited' = IF guarded THEN CycleAdd(visited, a, b) ELSE visited
       /\ IF TypeOf(a) # TypeOf(b) THEN
            /\ IF NullSuppressed(options, a, b) THEN Silent(Popped)
               ELSE Yield(ChangedRecord(f.path, a, b, f.loc), {a, b}, Popped)
            /\ UNCHANGED entered
          ELSE IF IsArray(heap, a) /\ IsArray(heap, b) THEN
            /\ Silent(ReplaceTop([f EXCEPT !.pc = "arr", !.i = 0]))
            /\ entered' = [entered EXCEPT ![a.id] = @ + 1, ![b.id] = @ + 1]
          ELSE IF TypeOf(a) = "object" /\ Truthy(a) /\ Truthy(b) THEN
            /\ Silent(ReplaceTop([f EXCEPT !.pc = "map", !.i = 1,
                 !.keys = UnionKeys(OwnKeys(heap[a.id]), OwnKeys(heap[b.id]))]))
            /\ entered' = [entered EXCEPT ![a.id] = @ + 1, ![b.id] = @ + 1]
          ELSE
            /\ IF NullSuppressed(options, a, b) THEN Silent(Popped)
               ELSE Yield(ChangedRecord(f.path, a, b, f.loc), {a, b}, Popped)
            /\ UNCHANGED entered
  /\ UNCHANGED <<heap, rootA, rootB, options, groupVars, menuVars>>

(***************************************************************************)
(* deepDiff: one iteration of the sequence loop                            *)
(***************************************************************************)
DeepDiffArrayStep ==
  /\ Running
  /\ Top.pc = "arr"
  /\ LET f == Top
         oa == heap[f.a.id]
         ob == heap[f.b.id]
         max == Max(Length(oa), Length(ob))
     IN
     IF f.i < max THEN
       Silent(Append(ReplaceTop([f EXCEPT !.i = @ + 1]),
                     Frame(ElemAt(oa, f.i), ElemAt(ob, f.i),
                           Append(f.path, IndexSegment(f.i)),
                           Append(f.loc, IndexStep(f.i)),
                           f.depth + 1)))
     ELSE Silent(Popped)
  /\ UNCHANGED <<heap, rootA, rootB, options, visited, entered, groupVars, menuVars>>

(***************************************************************************)
(* deepDiff: one iteration of the key loop                                 *)
(***************************************************************************)
DeepDiffKeyStep ==
  /\ Running
  /\ Top.pc = "map"
  /\ LET f == Top
         oa == heap[f.a.id]
         ob == heap[f.b.id]
         next == ReplaceTop([f EXCEPT !.i = @ + 1])
     IN
     IF f.i > Len(f.keys) THEN Silent(Popped)
     ELSE
       LET key == f.keys[f.i]
           newPath == Append(f.path, key)
           newLoc == Append(f.loc, KeyStep(key))
       IN
       IF KeyIgnored(options, key) THEN Silent(next)
       ELSE IF ~HasKey(oa, key) THEN
         IF NullSuppressed(options, Get(ob, key), Get(ob, key)) THEN Silent(next)
         ELSE Yield(AddedRecord(newPath, Get(ob, key), newLoc), {Get(ob, key)}, next)
       ELSE IF ~HasKey(ob, key) THEN
         IF NullSuppressed(options, Get(oa, key), Get(oa, key)) THEN Silent(next)
         ELSE Yield(RemovedRecord(newPath, Get(oa, key), newLoc), {Get(oa, key)}, next)
       ELSE
         Silent(Append(next, Frame(Get(oa, key), Get(ob, key), newPath, newLoc,
                                   f.depth + 1)))
  /\ UNCHANGED <<heap, rootA, rootB, options, visited, entered, groupVars, menuVars>>

(***************************************************************************)
(* Inputs                                                                  *)
(***************************************************************************)
Kp == <<"p">>
Kq == <<"q">>
Kr == <<"r">>
Kv == <<"v">>
Kw == <<"w">>

\* the composites the roots can hold; ids 1 and 2 are the roots
Pool ==
  <<Mapping(<<>>),
    Mapping(<<>>),
    Mapping(<<KV(Kv, Num(1)), KV(Kw, Ref(7))>>),
    Mapping(<<KV(Kw, Ref(8)), KV(Kv, Str(<<"F", "o">>))>>),
    Sequence(<<Str(<<"F", "o">>), Ref(11)>>),
    Sequence(<<Str(<<"f", "o">>), Ref(12), Null>>),
    Mapping(<<KV(Kv, Ref(9))>>),
    Mapping(<<KV(Kv, Ref(10))>>),
    Mapping(<<KV(Kv, Num(1))>>),
    Mapping(<<KV(Kv, Num(2)), KV(Kw, Ref(3))>>)>>

ValsA == {Null, Ref(3), Ref(5)}
ValsB == {Ref(3), Ref(4), Ref(5), Ref(6)}
ElemsA == {Ref(5), Ref(9)}
ElemsB == {Num(1), Ref(6), Ref(10)}

\* roots of the calls that do not compare two fresh composites
OtherRoots == {Null, Num(1), Ref(1), Ref(9)}

SeqsUpTo(S, n) == UNION {[1..k -> S] : k \in 0..n}

MappingsOver(keys, S) ==
  {Mapping([i \in 1..Len(keys) |-> KV(keys[i], vs[i])]) : vs \in [1..Len(keys) -> S]}

SequencesOver(S) == {Sequence(e) : e \in SeqsUpTo(S, MaxArrLen)}

RootsA == MappingsOver(<<Kp, Kq>>, ValsA) \cup SequencesOver(ElemsA)

RootsB ==
  MappingsOver(<<Kp, Kq>>, ValsB) \cup MappingsOver(<<Kq, Kp>>, ValsB)
    \cup MappingsOver(<<Kq, Kr>>, ValsB) \cup SequencesOver(ElemsB)

MaxDepths == {Undefined} \cup {Num(d) : d \in 0..MaxDepthOpt}

OptionSets ==
  {[DefaultOptions EXCEPT !.maxDepth = d] : d \in MaxDepths}
    \cup {[DefaultOptions EXCEPT !.includeNulls = FALSE],
          [DefaultOptions EXCEPT !.ignoreKeys = {Kq}],
          [DefaultOptions EXCEPT !.ignoreCase = TRUE],
          [DefaultOptions EXCEPT !.customEqual = "sameType"],
          [DefaultOptions EXCEPT !.includeNulls = FALSE, !.ignoreCase = TRUE,
                                 !.maxDepth = Num(1)]}

(***************************************************************************)
(* Aggregation API: groupByType and getSummary                             *)
(***************************************************************************)
MaxListLen == 3

EmptyGroups == [added |-> <<>>, removed |-> <<>>, changed |-> <<>>]
NoSummary == [total |-> -1, added |-> -1, removed |-> -1, changed |-> -1]

AggregationCall(fn) ==
  /\ gPhase = "idle"
  /\ gFn' = fn
  /\ gPhase' = "reduce"
  /\ gIdx' = 1
  /\ gGroups' = EmptyGroups
  /\ UNCHANGED <<gDiffs, gSummary, diffVars, menuVars>>

GroupByTypeCall == AggregationCall("groupByType")

GetSummaryCall == AggregationCall("getSummary")

\* groups[diff.type].push(diff): a type that is no bucket has no push
PushInto(groups, diff) ==
  IF diff.type \in DOMAIN groups
    THEN [ok |-> TRUE, groups |-> [groups EXCEPT ![diff.type] = Append(@, diff)]]
    ELSE [ok |-> FALSE, groups |-> groups]

\* one callback of diffs.reduce
ReduceStep ==
  /\ gPhase = "reduce"
  /\ gIdx <= Len(gDiffs)
  /\ LET r == PushInto(gGroups, gDiffs[gIdx])
     IN IF r.ok
          THEN gGroups' = r.groups /\ gIdx' = gIdx + 1 /\ gPhase' = "reduce"
          ELSE gPhase' = "threw" /\ UNCHANGED <<gGroups, gIdx>>
  /\ UNCHANGED <<gFn, gDiffs, gSummary, diffVars, menuVars>>

\* reduce is finished: groupByType returns the groups, getSummary the counts
ReduceReturn ==
  /\ gPhase = "reduce"
  /\ gIdx > Len(gDiffs)
  /\ gPhase' = "done"
  /\ gSummary' =
       IF gFn = "getSummary"
         THEN [total |-> Len(gDiffs), added |-> Len(gGroups.added),
               removed |-> Len(gGroups.removed), changed |-> Len(gGroups.changed)]
         ELSE gSummary
  /\ UNCHANGED <<gFn, gDiffs, gIdx, gGroups, diffVars, menuVars>>

(***************************************************************************)
(* The interactive menu and the background watcher                         *)
(***************************************************************************)
NumVersions == 2
MaxPending == 2

DEFAULT_UID == Str(<<>>)
DEFAULT_PWD == Str(<<>>)

\* the handle setInterval returns
TimerHandle(id) == [t |-> "object", id |-> id]

\* the label of the third menu entry
WatchLabel == IF Truthy(watch) THEN "Stop watching grades" ELSE "Watch grades"

AtMenu == mPc = "select"

\* checkGrades(state) is called: it runs up to its first await
StartCheck(n) == IF n < MaxPending THEN n + 1 ELSE n

\* select() was cancelled: ask whether to exit
SelectCancel ==
  /\ AtMenu
  /\ mPc' = "confirm"
  /\ UNCHANGED <<watch, intervals, timerSeq, parsed, gradesFile, pending, posted, mLog>>
  /\ UNCHANGED <<diffVars, groupVars>>

\* process.exit(0) after mainMenuLoop returned ends every timer
Exit ==
  /\ mPc' = "exited"
  /\ intervals' = {}
  /\ pending' = 0
  /\ UNCHANGED <<watch, timerSeq, parsed, gradesFile, posted, mLog>>

ConfirmExit ==
  /\ mPc = "confirm"
  /\ \E answer \in {"yes", "no", "cancel"} :
       IF answer = "yes" THEN Exit
       ELSE /\ mPc' = "select"
            /\ UNCHANGED <<watch, intervals, timerSeq, parsed, gradesFile, pending,
                           posted, mLog>>
  /\ UNCHANGED <<diffVars, groupVars>>

SelectQuit ==
  /\ AtMenu
  /\ Exit
  /\ UNCHANGED <<diffVars, groupVars>>

SelectRefresh ==
  /\ AtMenu
  /\ IF ~Truthy(DEFAULT_UID) \/ ~Truthy(DEFAULT_PWD)
       THEN mLog' = "No credentials set" /\ UNCHANGED parsed
       ELSE \E v \in 1..NumVersions : parsed' = v /\ mLog' = "Refreshed"
  /\ UNCHANGED <<mPc, watch, intervals, timerSeq, gradesFile, pending, posted>>
  /\ UNCHANGED <<diffVars, groupVars>>

SelectViewSem ==
  /\ AtMenu
  /\ mLog' = IF parsed = 0 THEN "No data" ELSE "Semester"
  /\ UNCHANGED <<mPc, watch, intervals, timerSeq, parsed, gradesFile, pending, posted>>
  /\ UNCHANGED <<diffVars, groupVars>>

SelectWatchGrades ==
  /\ AtMenu
  /\ IF Truthy(watch)
       THEN /\ mLog' = "Stopping background grade watcher"
            /\ intervals' = intervals \ {watch.id}
            /\ UNCHANGED <<watch, timerSeq, pending>>
       ELSE /\ mLog' = "Watching grades in the background"
            /\ pending' = StartCheck(pending)
            /\ watch' = TimerHandle(timerSeq)
            /\ intervals' = intervals \cup {timerSeq}
            /\ timerSeq' = timerSeq + 1
  /\ UNCHANGED <<mPc, parsed, gradesFile, posted>>
  /\ UNCHANGED <<diffVars, groupVars>>

\* an active interval fires and calls checkGrades(state)
IntervalTick ==
  /\ mPc # "exited"
  /\ intervals # {}
  /\ pending < MaxPending
  /\ pending' = StartCheck(pending)
  /\ UNCHANGED <<mPc, watch, intervals, timerSeq, parsed, gradesFile, posted, mLog>>
  /\ UNCHANGED <<diffVars, groupVars>>

\* a checkGrades call gets its grades, notifies on a difference and saves them
CheckGradesFinish ==
  /\ mPc # "exited"
  /\ pending > 0
  /\ \E v \in 1..NumVersions :
       /\ parsed' = v
       /\ posted' = IF gradesFile # 0 /\ gradesFile # v THEN v ELSE posted
       /\ gradesFile' = v
  /\ pending' = pending - 1
  /\ UNCHANGED <<mPc, watch, intervals, timerSeq, mLog>>
  /\ UNCHANGED <<diffVars, groupVars>>

(***************************************************************************)
(* Specifications                                                          *)
(***************************************************************************)
DiffInputs ==
  /\ \/ /\ \E ra \in RootsA, rb \in RootsB : heap = <<ra, rb>> \o Pool
        /\ rootA = Ref(1)
        /\ rootB = Ref(2)
     \/ /\ heap = <<Mapping(<<KV(Kp, Ref(1))>>), Mapping(<<KV(Kp, Ref(2))>>)>> \o Pool
        /\ rootA \in OtherRoots \cup {Ref(2)}
        /\ rootB \in OtherRoots \cup {Ref(2)}
  /\ options \in OptionSets

DiffIdle ==
  /\ cur = "idle"
  /\ stack = <<>>
  /\ visited = {}
  /\ out = <<>>
  /\ results = [ab |-> NoResult, ba |-> NoResult]
  /\ entered = [id \in 1..(Len(Pool) + 2) |-> 0]

NoDiffInputs ==
  /\ heap = <<Mapping(<<>>), Mapping(<<>>)>> \o Pool
  /\ rootA = Ref(1)
  /\ rootB = Ref(2)
  /\ options = DefaultOptions

GroupTypes == {"added", "removed", "changed", "moved"}

\* record i of a list carries its position as its path
DiffLists ==
  {[i \in 1..Len(ts) |-> [type |-> ts[i], path |-> NumToString(i)]] :
     ts \in SeqsUpTo(GroupTypes, MaxListLen)}

GroupIdle ==
  /\ gFn = "none"
  /\ gPhase = "idle"
  /\ gIdx = 1
  /\ gGroups = EmptyGroups
  /\ gSummary = NoSummary

MenuIdle ==
  /\ mPc = "select"
  /\ watch = Undefined
  /\ intervals = {}
  /\ timerSeq = 1
  /\ gradesFile = 0
  /\ pending = 0
  /\ posted = 0
  /\ mLog = "intro"

Init ==
  /\ DiffInputs /\ DiffIdle
  /\ gDiffs = <<>> /\ GroupIdle
  /\ parsed = 1 /\ MenuIdle

Next ==
  \/ CompareAB
  \/ CompareBA
  \/ CompareReturn
  \/ DeepDiffEnter
  \/ DeepDiffArrayStep
  \/ DeepDiffKeyStep

Spec == Init /\ [][Next]_vars

\* compare drains the generator in one synchronous loop: once a call has
\* started, its next step is always taken
SpecLive ==
  Spec /\ WF_vars(DeepDiffEnter \/ DeepDiffArrayStep \/ DeepDiffKeyStep \/ CompareReturn)

InitGroup ==
  /\ NoDiffInputs /\ DiffIdle
  /\ gDiffs \in DiffLists /\ GroupIdle
  /\ parsed = 1 /\ MenuIdle

NextGroup ==
  \/ GroupByTypeCall
  \/ GetSummaryCall
  \/ ReduceStep
  \/ ReduceReturn

SpecGroup == InitGroup /\ [][NextGroup]_vars

InitMenu ==
  /\ NoDiffInputs /\ DiffIdle
  /\ gDiffs = <<>> /\ GroupIdle
  /\ parsed \in 1..NumVersions /\ MenuIdle

NextMenu ==
  \/ SelectCancel
  \/ ConfirmExit
  \/ SelectQuit
  \/ SelectRefresh
  \/ SelectViewSem
  \/ SelectWatchGrades
  \/ IntervalTick
  \/ CheckGradesFinish

SpecMenu == InitMenu /\ [][NextMenu]_vars

(***************************************************************************)
(* Helpers of the properties                                               *)
(***************************************************************************)
Dirs == {"ab", "ba"}

FirstArg(dir) == IF dir = "ab" THEN rootA ELSE rootB
SecondArg(dir) == IF dir = "ab" THEN rootB ELSE rootA

\* the call the records of out belong to
OutDir ==
  IF cur # "idle" THEN cur
  ELSE IF results["ba"] # NoResult THEN "ba" ELSE "ab"

HasReturned(dir) == results[dir].status = "returned"

IsComposite(v) == v.t = "object"

\* the value found by following the steps of loc from v
RECURSIVE Resolve(_, _)
Resolve(v, loc) ==
  IF loc = <<>> THEN v
  ELSE IF ~IsComposite(v) THEN Undefined
  ELSE LET s == loc[1]
           o == heap[v.id]
           w == IF s.kind = "index"
                  THEN (IF o.kind = "arr" THEN ElemAt(o, s.index) ELSE Undefined)
                  ELSE Get(o, s.key)
       IN Resolve(w, Tail(loc))

Prefix(loc, n) == SubSeq(loc, 1, n)
Parent(loc) == Prefix(loc, Len(loc) - 1)

\* the machine path of a location: segments joined by ".", an index as "[i]"
RECURSIVE DottedPath(_)
DottedPath(loc) ==
  IF loc = <<>> THEN <<>>
  ELSE LET s == loc[Len(loc)]
           seg == IF s.kind = "index"
                    THEN <<"[">> \o NumToString(s.index) \o <<"]">>
                    ELSE s.key
       IN IF Len(loc) = 1 THEN seg ELSE DottedPath(Parent(loc)) \o <<".">> \o seg

\* the same with an index attached to the segment before it, as in a.b[2].c
RECURSIVE AttachedPath(_)
AttachedPath(loc) ==
  IF loc = <<>> THEN <<>>
  ELSE LET s == loc[Len(loc)]
       IN IF s.kind = "index"
            THEN AttachedPath(Parent(loc)) \o <<"[">> \o NumToString(s.index) \o <<"]">>
            ELSE IF Len(loc) = 1 THEN s.key
            ELSE AttachedPath(Parent(loc)) \o <<".">> \o s.key

Kind(v) ==
  CASE v.t = "null" -> "null"
    [] v.t = "undefined" -> "absent"
    [] v.t = "object" -> (IF heap[v.id].kind = "arr" THEN "sequence" ELSE "mapping")
    [] OTHER -> "scalar"

PosIn(seq, x) == CHOOSE i \in 1..Len(seq) : seq[i] = x

\* position of a key in "keys of a in a's order, then keys only in b in b's order"
KeyRank(oa, ob, key) ==
  IF HasKey(oa, key) THEN PosIn(OwnKeys(oa), key)
  ELSE Len(OwnKeys(oa)) + PosIn(OwnKeys(ob), key)

RECURSIVE CommonPrefixLen(_, _)
CommonPrefixLen(l1, l2) ==
  IF l1 = <<>> \/ l2 = <<>> \/ l1[1] # l2[1] THEN 0
  ELSE 1 + CommonPrefixLen(Tail(l1), Tail(l2))

\* r1 comes before r2 in the traversal of x against y
InTraversalOrder(r1, r2, x, y) ==
  LET n == CommonPrefixLen(r1.loc, r2.loc)
  IN /\ n < Len(r1.loc)
     /\ n < Len(r2.loc)
     /\ LET s1 == r1.loc[n + 1]
            s2 == r2.loc[n + 1]
            va == Resolve(x, Prefix(r1.loc, n))
            vb == Resolve(y, Prefix(r1.loc, n))
        IN IF s1.kind = "index"
             THEN s2.kind = "index" /\ s1.index < s2.index
             ELSE /\ s2.kind = "key"
                  /\ IsComposite(va) /\ IsComposite(vb)
                  /\ KeyRank(heap[va.id], heap[vb.id], s1.key)
                       < KeyRank(heap[va.id], heap[vb.id], s2.key)

(***************************************************************************)
(* Properties                                                              *)
(***************************************************************************)

\* C1: with default options, compare(a,b) is non-empty iff compare(b,a) is
\* non-empty.
NonEmptinessSymmetry ==
  (options = DefaultOptions /\ HasReturned("ab") /\ HasReturned("ba"))
    => ((results["ab"].list # <<>>) <=> (results["ba"].list # <<>>))

DualIn(r, type, field, other, list) ==
  r.type = type =>
    \E j \in 1..Len(list) :
      /\ list[j].type = other
      /\ list[j].path = r.path
      /\ list[j][IF field = "before" THEN "after" ELSE "before"] = r[field]

\* C2: a removed record at path p with before = v in compare(a,b) has an added
\* record at p with after = v in compare(b,a), and the other way round.
AddedRemovedDuality ==
  (HasReturned("ab") /\ HasReturned("ba")) =>
    \A d \in Dirs :
      LET mine == results[d].list
          theirs == results[IF d = "ab" THEN "ba" ELSE "ab"].list
      IN \A i \in 1..Len(mine) :
           /\ DualIn(mine[i], "removed", "before", "added", theirs)
           /\ DualIn(mine[i], "added", "after", "removed", theirs)

\* C3 as stated: added has no before, removed has no after, changed has both
\* before and after present (not undefined) and they are not equal under the
\* options.
RecordInvariant ==
  \A i \in 1..Len(out) :
    LET r == out[i]
    IN /\ r.type = "added" => "before" \notin DOMAIN r
       /\ r.type = "removed" => "after" \notin DOMAIN r
       /\ r.type = "changed" =>
            /\ r.before # Undefined
            /\ r.after # Undefined
            /\ ~IsEqual(r.before, r.after, options)

\* the side of r is absent because its sequence ends before the position of r
PastTheEnd(r, root) ==
  /\ r.loc # <<>>
  /\ r.loc[Len(r.loc)].kind = "index"
  /\ LET parent == Resolve(root, Parent(r.loc))
     IN /\ IsArray(heap, parent)
        /\ r.loc[Len(r.loc)].index >= Length(heap[parent.id])

\* C3 amended: added has no before, removed has no after, changed has before
\* and after not equal under the options, and a side of a changed record is
\* undefined only at a sequence position past the end of that side's sequence.
RecordInvariantAmended ==
  \A i \in 1..Len(out) :
    LET r == out[i]
    IN /\ r.type = "added" => "before" \notin DOMAIN r
       /\ r.type = "removed" => "after" \notin DOMAIN r
       /\ r.type = "changed" =>
            /\ ~IsEqual(r.before, r.after, options)
            /\ r.before = Undefined => PastTheEnd(r, FirstArg(OutDir))
            /\ r.after = Undefined => PastTheEnd(r, SecondArg(OutDir))

\* a changed record for a position past the end of the shorter sequence, next
\* to an added and a removed record
RecordWitness ==
  /\ \E i \in 1..Len(out) :
       out[i].type = "changed" /\ out[i].after = Undefined /\ out[i].before # Undefined
  /\ \E d \in Dirs :
       /\ HasReturned(d)
       /\ \E i, j \in 1..Len(results[d].list) :
            results[d].list[i].type = "added" /\ results[d].list[j].type = "removed"

\* C4: at a node whose two values are of different kinds and not equal, deepDiff
\* yields exactly one changed record at the current path with both values and
\* does not descend; with includeNulls false and a null side it yields nothing.
KindMismatchStep ==
  LET f == Top
  IN (/\ Running
      /\ f.pc = "start"
      /\ ~DepthExceeded(options, f.depth)
      /\ Kind(f.a) # "absent" /\ Kind(f.b) # "absent"
      /\ Kind(f.a) # Kind(f.b)
      /\ ~IsEqual(f.a, f.b, options)
      /\ ~YieldThrows({f.a, f.b}))
     => /\ stack' = Popped
        /\ IF options.includeNulls = FALSE /\ (f.a = Null \/ f.b = Null)
             THEN out' = out
             ELSE /\ Len(out') = Len(out) + 1
                  /\ SubSeq(out', 1, Len(out)) = out
                  /\ LET r == out'[Len(out')]
                     IN /\ r.type = "changed"
                        /\ r.path = JoinPath(f.path)
                        /\ r.before = f.a
                        /\ r.after = f.b

\* C4: every step of the traversal treats a kind mismatch as stated above.
KindMismatch == [][KindMismatchStep]_vars

\* C5: with maxDepth n >= 0 in the options, no record is emitted for a location
\* deeper than n.
DepthLimit ==
  options.maxDepth # Undefined =>
    \A i \in 1..Len(out) : Len(out[i].loc) <= options.maxDepth.n

\* C6 as stated: the path of a record is its keys joined by "." with every
\* sequence index attached to the segment before it, as in a.b[2].c.
MachinePathAttached ==
  \A i \in 1..Len(out) : out[i].path = AttachedPath(out[i].loc)

\* C6 amended: the path of a record is the segments of its location joined by
\* ".", a key as itself and a sequence index i as the segment [i] (a.b.[2].c),
\* and following these steps from a and from b leads to before and after.
MachinePath ==
  \A i \in 1..Len(out) :
    LET r == out[i]
    IN /\ r.path = DottedPath(r.loc)
       /\ "before" \in DOMAIN r => Resolve(FirstArg(OutDir), r.loc) = r.before
       /\ "after" \in DOMAIN r => Resolve(SecondArg(OutDir), r.loc) = r.after

\* a record below a key, an index and a key again
MachinePathWitness ==
  \E i \in 1..Len(out) :
    LET l == out[i].loc
    IN /\ Len(l) >= 3
       /\ \E k \in 2..(Len(l) - 1) :
            l[k - 1].kind = "key" /\ l[k].kind = "index" /\ l[k + 1].kind = "key"

GroupByTypeNeverFails ==
  /\ gPhase # "threw"
  /\ gPhase = "done" =>
       \A t \in DOMAIN EmptyGroups :
         gGroups[t] = SelectSeq(gDiffs, LAMBDA d : d.type = t)

\* C9: every started call ends (it returns or throws); no composite is entered
\* twice by one call; the visited set of a call only grows; a composite compared
\* against itself yields [].
CycleSafety ==
  /\ (cur # "idle") ~> (cur = "idle")
  /\ [](\A id \in DOMAIN entered : entered[id] <= 1)
  /\ [][(cur # "idle" /\ cur' = cur) => visited \subseteq visited']_vars
  /\ []((rootA = rootB /\ IsComposite(rootA) /\ results["ab"] # NoResult)
          => results["ab"] = Returned(<<>>))

\* a call that entered two self-referential mappings and returned
CycleSafetyWitness ==
  /\ cur = "idle"
  /\ HasReturned(OutDir)
  /\ \E x, y \in DOMAIN heap :
       /\ x # y
       /\ entered[x] = 1 /\ entered[y] = 1
       /\ x \in ReachPlus(heap, x) /\ y \in ReachPlus(heap, y)

\* C10: while the menu runs, state.watch is set iff an interval is active, the
\* label reads "Stop watching grades" exactly then, and at most one interval is
\* active.
WatchToggleConsistent ==
  mPc # "exited" =>
    /\ Truthy(watch) <=> intervals # {}
    /\ (WatchLabel = "Stop watching grades") <=> intervals # {}
    /\ Cardinality(intervals) <= 1

====
